---- MODULE Spec2Model ----
(***************************************************************************)
(* Model of scripts/notify-changelog-to-slack.js, the changelog-to-Slack   *)
(* notifier, in its two revisions: the hash-based one (lines 1-155) and    *)
(* the git-based one (lines 157-340).                                      *)
(*                                                                         *)
(* A JavaScript string is a sequence of one-character strings; positions   *)
(* are the 0-based positions of JavaScript, so the character at position p *)
(* is s[p + 1].  null is the one-element sequence Null, whose element is   *)
(* no character.                                                           *)
(***************************************************************************)
EXTENDS Integers, Sequences, FiniteSets

Null == <<"<null>">>

NL == "\n"

\* The single UTF-16 code unit U+2026 (horizontal ellipsis) of lines 83, 258.
Ellipsis == "U+2026"

\* What String.prototype.trim removes, among the characters of the model.
WhiteSpace == {" ", NL, "\t"}

Digits == {"0", "1", "2", "3", "4", "5", "6", "7", "8", "9"}

Min(S) == CHOOSE x \in S : \A y \in S : x <= y

Max(S) == CHOOSE x \in S : \A y \in S : x >= y

(***************************************************************************)
(* String primitives of JavaScript used by the script.                     *)
(***************************************************************************)

\* pat occurs in s at position p.
MatchAt(s, pat, p) ==
    /\ p >= 0
    /\ p + Len(pat) <= Len(s)
    /\ \A k \in 1..Len(pat) : s[p + k] = pat[k]

\* s.indexOf(pat, from)
indexOf(s, pat, from) ==
    LET hits == {p \in from..(Len(s) - Len(pat)) : MatchAt(s, pat, p)}
    IN  IF hits = {} THEN -1 ELSE Min(hits)

\* s.slice(a, b) for 0 <= a
slice(s, a, b) == SubSeq(s, a + 1, IF b > Len(s) THEN Len(s) ELSE b)

\* s.startsWith(pat)
startsWith(s, pat) == MatchAt(s, pat, 0)

\* s.trim()
trim(s) ==
    LET keep == {p \in 1..Len(s) : s[p] \notin WhiteSpace}
    IN  IF keep = {} THEN << >> ELSE SubSeq(s, Min(keep), Max(keep))

\* s.split("\n")
split(s) ==
    LET nls == {p \in 1..Len(s) : s[p] = NL}
        nth(k) == IF k = 0 THEN 0
                  ELSE IF k = Cardinality(nls) + 1 THEN Len(s) + 1
                  ELSE CHOOSE p \in nls : Cardinality({q \in nls : q < p}) = k - 1
    IN  [k \in 1..(Cardinality(nls) + 1) |-> SubSeq(s, nth(k - 1) + 1, nth(k) - 1)]

RECURSIVE join(_)
\* lines.join("\n")
join(lines) ==
    IF Len(lines) = 0 THEN << >>
    ELSE IF Len(lines) = 1 THEN lines[1]
    ELSE lines[1] \o <<NL>> \o join(Tail(lines))

\* The position p is where ^ matches under the m flag.
LineStart(s, p) == p = 0 \/ (p >= 1 /\ p <= Len(s) /\ s[p] = NL)

\* The position where the line holding position p ends ($ under the m flag).
LineEnd(s, p) ==
    LET nls == {q \in p..(Len(s) - 1) : s[q + 1] = NL}
    IN  IF nls = {} THEN Len(s) ELSE Min(nls)

(***************************************************************************)
(* Literals of the script.                                                 *)
(***************************************************************************)

\* "## Timeline" (lines 61, 231)
TimelineMarker == <<"#", "#", " ", "T", "i", "m", "e", "l", "i", "n", "e">>

\* "\n---" (lines 72, 244)
RuleSep == <<"\n", "-", "-", "-">>

\* "---" (lines 81, 256)
RulePrefix == <<"-", "-", "-">>

\* "### " opening the month heading of line 67
MonthPrefix == <<"#", "#", "#", " ">>

\* "#### " opening the subheading of line 237
SubheadingPrefix == <<"#", "#", "#", "#", " ">>

\* The month names of the regular expression of line 67.
MonthNames ==
    { <<"J", "a", "n", "u", "a", "r", "y">>,
      <<"F", "e", "b", "r", "u", "a", "r", "y">>,
      <<"M", "a", "r", "c", "h">>,
      <<"A", "p", "r", "i", "l">>,
      <<"M", "a", "y">>,
      <<"J", "u", "n", "e">>,
      <<"J", "u", "l", "y">>,
      <<"A", "u", "g", "u", "s", "t">>,
      <<"S", "e", "p", "t", "e", "m", "b", "e", "r">>,
      <<"O", "c", "t", "o", "b", "e", "r">>,
      <<"N", "o", "v", "e", "m", "b", "e", "r">>,
      <<"D", "e", "c", "e", "m", "b", "e", "r">> }

\* The cap of lines 83 and 258 on the extracted text.
MaxTextLen == 3000

\* The length kept before the ellipsis, lines 83 and 258.
KeptLen == 2997

(***************************************************************************)
(* The regular expressions.  exec returns the position of the first match  *)
(* at or after lastIndex (the g flag), or -1 for a null result.            *)
(***************************************************************************)

\* /^### (January|...|December) \d{4}/gm matches at position p (line 67).
monthHeadingAt(s, p) ==
    /\ LineStart(s, p)
    /\ \E m \in MonthNames :
          /\ MatchAt(s, MonthPrefix \o m \o <<" ">>, p)
          /\ p + Len(MonthPrefix) + Len(m) + 1 + 4 <= Len(s)
          /\ \A k \in 1..4 : s[p + Len(MonthPrefix) + Len(m) + 1 + k] \in Digits

\* /^#### .+$/gm matches at position p (line 237): "." is any character but
\* a line terminator, so one such character must follow the prefix.
subheadingAt(s, p) ==
    /\ LineStart(s, p)
    /\ MatchAt(s, SubheadingPrefix, p)
    /\ p + Len(SubheadingPrefix) < Len(s)
    /\ s[p + Len(SubheadingPrefix) + 1] # NL

\* monthHeadingRe.exec(s) with lastIndex
monthHeadingExec(s, lastIndex) ==
    LET hits == {p \in lastIndex..Len(s) : monthHeadingAt(s, p)}
    IN  IF hits = {} THEN -1 ELSE Min(hits)

\* subheadingRe.exec(s) with lastIndex
subheadingExec(s, lastIndex) ==
    LET hits == {p \in lastIndex..Len(s) : subheadingAt(s, p)}
    IN  IF hits = {} THEN -1 ELSE Min(hits)

\* The filter of lines 81 and 256.
keepLine(line) == ~startsWith(line, RulePrefix) /\ Len(trim(line)) > 0

\* Lines 79-83 (the same text as lines 254-258): drop rule and blank lines,
\* join, trim, cap.
cleanSection(raw) ==
    LET lines == SelectSeq(split(raw), keepLine)
        text == trim(join(lines))
    IN  IF Len(text) > MaxTextLen
        THEN slice(text, 0, KeptLen) \o <<Ellipsis>>
        ELSE text

\* extractLatestSection of the hash-based revision (lines 60-84).
extractLatestSectionHash(content) ==
    LET timelineStart == indexOf(content, TimelineMarker, 0)
        afterTimeline == slice(content, timelineStart, Len(content))
        firstMatch == monthHeadingExec(afterTimeline, 0)
        sectionStart == firstMatch
        sectionEnd == indexOf(afterTimeline, RuleSep, sectionStart)
        raw == IF sectionEnd = -1
               THEN slice(afterTimeline, sectionStart, Len(afterTimeline))
               ELSE slice(afterTimeline, sectionStart, sectionEnd)
    IN  IF timelineStart = -1 THEN Null
        ELSE IF firstMatch = -1 THEN Null
        ELSE cleanSection(raw)

\* extractLatestSection of the git-based revision without the next
\* subheading of lines 243 and 248 as an end of the section.
extractLatestSectionGit_RuleOnly(content) ==
    LET timelineStart == indexOf(content, TimelineMarker, 0)
        afterTimeline == slice(content, timelineStart, Len(content))
        firstMatch == subheadingExec(afterTimeline, 0)
        sectionStart == firstMatch
        sectionSep == indexOf(afterTimeline, RuleSep, sectionStart)
        end0 == Len(afterTimeline)
        sectionEnd == IF sectionSep # -1 THEN Min({end0, sectionSep}) ELSE end0
        raw == slice(afterTimeline, sectionStart, sectionEnd)
    IN  IF timelineStart = -1 THEN Null
        ELSE IF firstMatch = -1 THEN Null
        ELSE cleanSection(raw)

\* extractLatestSection of the git-based revision (lines 230-259).
extractLatestSectionGit(content) ==
    LET timelineStart == indexOf(content, TimelineMarker, 0)
        afterTimeline == slice(content, timelineStart, Len(content))
        firstMatch == subheadingExec(afterTimeline, 0)
        sectionStart == firstMatch
        \* the g flag: the second exec resumes where the first match ended
        nextMatch == subheadingExec(afterTimeline, LineEnd(afterTimeline, firstMatch))
        sectionSep == indexOf(afterTimeline, RuleSep, sectionStart)
        end0 == Len(afterTimeline)
        end1 == IF nextMatch # -1 THEN Min({end0, nextMatch}) ELSE end0
        sectionEnd == IF sectionSep # -1 THEN Min({end1, sectionSep}) ELSE end1
        raw == slice(afterTimeline, sectionStart, sectionEnd)
    IN  IF timelineStart = -1 THEN Null
        ELSE IF firstMatch = -1 THEN Null
        ELSE cleanSection(raw)

(***************************************************************************)
(* The files and the environment of a run.                                 *)
(***************************************************************************)

\* DocA: a changelog whose newest entry is of May 2
\*   ## Timeline\n### May 2026\n#### May 2\n- a
DocA ==
    <<"#", "#", " ", "T", "i", "m", "e", "l", "i", "n", "e", "\n", "#",
      "#", "#", " ", "M", "a", "y", " ", "2", "0", "2", "6", "\n", "#",
      "#", "#", "#", " ", "M", "a", "y", " ", "2", "\n", "-", " ", "a">>

\* DocB: DocA after an entry of June 1 was put on top
\*   ## Timeline\n### June 2026\n#### Jun 1\n- c\n---\n### May 2026\n#### May 2\n- a
DocB ==
    <<"#", "#", " ", "T", "i", "m", "e", "l", "i", "n", "e", "\n", "#",
      "#", "#", " ", "J", "u", "n", "e", " ", "2", "0", "2", "6", "\n",
      "#", "#", "#", "#", " ", "J", "u", "n", " ", "1", "\n", "-", " ",
      "c", "\n", "-", "-", "-", "\n", "#", "#", "#", " ", "M", "a", "y",
      " ", "2", "0", "2", "6", "\n", "#", "#", "#", "#", " ", "M", "a",
      "y", " ", "2", "\n", "-", " ", "a">>

\* DocNoTimeline: a changelog without the Timeline marker
\*   # Changelog\n- a
DocNoTimeline ==
    <<"#", " ", "C", "h", "a", "n", "g", "e", "l", "o", "g", "\n", "-",
      " ", "a">>

Documents == {DocA, DocB, DocNoTimeline}

\* How many runs of the script a behaviour holds.
MaxRuns == 3

\* The characters of the documents, for the digest.
Alphabet ==
    <<NL, " ", "#", "-", "0", "1", "2", "3", "4", "5", "6", "7", "8", "9",
      "A", "C", "J", "M", "T", "a", "b", "c", "e", "g", "h", "i", "l", "m",
      "n", "o", "p", "r", "u", "y">>

CharCode(c) == CHOOSE i \in 1..Len(Alphabet) : Alphabet[i] = c

HexDigits ==
    <<"0", "1", "2", "3", "4", "5", "6", "7", "8", "9",
      "a", "b", "c", "d", "e", "f">>

RECURSIVE weigh(_, _)
weigh(s, i) ==
    IF i > Len(s) THEN 0 ELSE (i * CharCode(s[i]) + weigh(s, i + 1)) % 256

\* computeHash (lines 39-41): a digest written in lowercase hexadecimal.
\* SHA-256 is cut down to an 8-bit position-weighted checksum, which tells
\* the documents of the model apart.
computeHash(content) ==
    LET d == weigh(content, 1)
    IN  <<HexDigits[(d \div 16) + 1], HexDigits[(d % 16) + 1]>>

\* The stored-hash file: absent (ENOENT), there but unreadable (any other
\* error of readFileSync, such as EACCES or EISDIR), or a file with data.
NoFile == [state |-> "absent", data |-> << >>]

Unreadable == [state |-> "unreadable", data |-> << >>]

File(data) == [state |-> "file", data |-> data]

\* What readStoredHash hands on when readFileSync fails with another error
\* than ENOENT: the exception, which nothing in main catches.
Thrown == <<"<thrown>">>

\* readStoredHash without the trim of line 45.
readStoredHash_NoTrim(file) ==
    IF file.state = "file" THEN file.data
    ELSE IF file.state = "absent" THEN Null
    ELSE Thrown

\* readStoredHash (lines 43-50)
readStoredHash(file) ==
    IF file.state = "file" THEN trim(file.data)
    ELSE IF file.state = "absent" THEN Null
    ELSE Thrown

\* writeStoredHash (lines 52-54): the file as it is after the write.
writeStoredHash(hash) == File(hash \o <<NL>>)

\* What the environment may leave at HASH_FILE between two runs.
HashFileStates ==
    { NoFile, Unreadable,
      File(computeHash(DocA)),
      File(<<" ">> \o computeHash(DocB) \o <<NL>>) }

\* An environment variable: unset (undefined), empty, or set.
EnvValues == {Null, << >>, <<"v">>}

\* INTERNAL_SLACK_WEBHOOK and COMMUNITY_SLACK_WEBHOOK as a run finds them.
WebhookSettings ==
    { <<(<<"v">>), (<<"v">>)>>, <<Null, (<<"v">>)>>, <<(<<"v">>), Null>>,
      <<(<< >>), (<<"v">>)>>, <<(<<"v">>), (<< >>)>>, <<Null, Null>> }

\* REF_BEFORE and REF_AFTER as a run finds them.
RefSettings ==
    { <<Null, Null>>, <<(<<"v">>), (<<"v">>)>>, <<(<<"v">>), Null>>,
      <<(<< >>), (<<"v">>)>> }

\* !x for x a string or undefined
falsy(x) == x = Null \/ x = << >>

\* What fetch settles with: a response with a status, or a rejection.
Response(status) == [rejected |-> FALSE, status |-> status]

Rejection == [rejected |-> TRUE, status |-> 0]

Responses == {Response(200), Response(204), Response(404), Response(500), Rejection}

\* Response.ok: the status is in the range 200-299.
ok(res) == res.status >= 200 /\ res.status <= 299

\* postToSlack without the check of res.ok of lines 107-109, 296-298.
postToSlackThrows_NoStatusCheck(res) == res.rejected

\* postToSlack (lines 101-110, 290-299) throws: fetch rejected, or !res.ok.
postToSlackThrows(res) == res.rejected \/ ~ok(res)

\* The exit statuses of git the script tells apart: 0 and anything else.
GitStatuses == {0, 1, 128}

\* Line 124 with the comparison the wrong way round.
hashUnchanged_Inverted(force, storedHash, currentHash) ==
    ~force /\ storedHash # currentHash

\* The condition of line 124, under which the hash-based run stops.
hashUnchanged(force, storedHash, currentHash) ==
    ~force /\ storedHash = currentHash

\* changelogChangedInRange taking only exit status 1 for a difference, so
\* that a git diff that fails counts as no difference.
changelogChangedInRange_OnlyStatusOne(diffStatus) == diffStatus = 1

\* changelogChangedInRange (lines 199-209), given git diff's exit status.
changelogChangedInRange(diffStatus) == diffStatus # 0

\* changelogChanged (lines 211-224), given whether git rev-parse HEAD^
\* succeeds and the exit status of the git diff it runs.
changelogChanged(refBefore, refAfter, headParent, diffStatus) ==
    IF ~falsy(refBefore) /\ ~falsy(refAfter)
    THEN changelogChangedInRange(diffStatus)
    ELSE IF ~headParent THEN TRUE
    ELSE changelogChangedInRange(diffStatus)

\* The condition of line 309, under which the git-based run stops.
gitUnchanged(force, refBefore, refAfter, headParent, diffStatus) ==
    ~force /\ ~changelogChanged(refBefore, refAfter, headParent, diffStatus)

(***************************************************************************)
(* The state.                                                              *)
(*   variant        which revision of the script the runs are of           *)
(*   changelog      changelog.mdx: its content, or Null when it is missing *)
(*   hashFile       the file at HASH_FILE                                  *)
(*   pc             where main is: "idle" (not running), "postInternal"    *)
(*                  and "postCommunity" (awaiting the fetch of line 143 /  *)
(*                  329, of line 144 / 330), "done" (the process exited    *)
(*                  and nothing happened since)                            *)
(*   inv            the invocation: --force, the environment variables,    *)
(*                  what git answers                                       *)
(*   run            what the run did: the stored-hash file it started      *)
(*                  from, the POSTs it made, the responses, how it ended   *)
(*   latestText     the local latestText of main                           *)
(* History kept for the properties:                                        *)
(*   runs, prev (the run before, when the current one followed it with no  *)
(*   change to the files in between), totalInternal, totalCommunity (POSTs *)
(*   over all runs) (digests of the documents both          *)
(*   destinations accepted) (the stored-hash file was last    *)
(*   written by the environment, not by the script), entries (the entries  *)
(*   a generated document was made of).                                    *)
(***************************************************************************)
VARIABLES variant, changelog, hashFile, pc, inv, run, latestText,
          runs, prev, totalInternal, totalCommunity, entries

vars == <<variant, changelog, hashFile, pc, inv, run, latestText,
          runs, prev, totalInternal, totalCommunity, entries>>

NoResponse == [rejected |-> FALSE, status |-> 0]

NoInv ==
    [force |-> FALSE, internalWebhook |-> Null, communityWebhook |-> Null,
     refBefore |-> Null, refAfter |-> Null, headParent |-> FALSE,
     diffStatus |-> 0]

NewRun(file) ==
    [hashAtStart |-> file, outcome |-> "running", exitCode |-> 0,
     postsInternal |-> 0, postsCommunity |-> 0, hashWrites |-> 0,
     resInternal |-> NoResponse, resCommunity |-> NoResponse]

\* The stored hash a run starts from is absent or differs from the digest
\* of the changelog.
StaleHash(file, doc) ==
    /\ doc # Null
    /\ \/ file.state = "absent"
       \/ file.state = "file" /\ trim(file.data) # computeHash(doc)

\* A POST was made and did not return a success status.
Refused(posts, res) ==
    posts > 0 /\ (res.rejected \/ res.status < 200 \/ res.status > 299)

NoPrev ==
    [ran |-> FALSE, force |-> FALSE, stale |-> FALSE, configured |-> FALSE,
     refused |-> FALSE, postsInternal |-> 0, postsCommunity |-> 0]

\* What is kept of a run for the run that follows it.
Summary ==
    [ran |-> TRUE, force |-> inv.force,
     stale |-> StaleHash(run.hashAtStart, changelog),
     configured |-> inv.internalWebhook \notin {Null, << >>}
                     /\ inv.communityWebhook \notin {Null, << >>},
     refused |-> Refused(run.postsInternal, run.resInternal)
                  \/ Refused(run.postsCommunity, run.resCommunity),
     postsInternal |-> run.postsInternal,
     postsCommunity |-> run.postsCommunity]

Init ==
    /\ variant \in {"hash", "git"}
    /\ changelog = DocA
    /\ hashFile = NoFile
    /\ pc = "idle"
    /\ inv = NoInv
    /\ run = NewRun(NoFile)
    /\ latestText = Null
    /\ runs = 0
    /\ prev = NoPrev
    /\ totalInternal = 0
    /\ totalCommunity = 0
    /\ entries = << >>

\* process.exit(code), or the end of the process on an uncaught exception
\* (exit code 1), before the first fetch.
ExitEarly(outcome, code) ==
    /\ pc' = "done"
    /\ run' = [NewRun(hashFile) EXCEPT !.outcome = outcome, !.exitCode = code]
    /\ latestText' = Null

\* main of the hash-based revision with the check of the webhooks (lines
\* 129-132) moved before the gate of lines 124-127.
HashStart_ConfigFirst(force, internalWebhook, communityWebhook) ==
    /\ variant = "hash"
    /\ pc = "idle"
    /\ runs < MaxRuns
    /\ runs' = runs + 1
    /\ inv' = [NoInv EXCEPT !.force = force,
                            !.internalWebhook = internalWebhook,
                            !.communityWebhook = communityWebhook]
    /\ IF changelog = Null THEN ExitEarly("missing", 1)
       ELSE LET content == changelog
                currentHash == computeHash(content)
                storedHash == readStoredHash(hashFile)
                text == extractLatestSectionHash(content)
            IN  IF storedHash = Thrown THEN ExitEarly("readError", 1)
                ELSE IF falsy(internalWebhook) \/ falsy(communityWebhook)
                THEN ExitEarly("noConfig", 1)
                ELSE IF hashUnchanged(force, storedHash, currentHash)
                THEN ExitEarly("unchanged", 0)
                ELSE IF falsy(text) THEN ExitEarly("noSection", 1)
                ELSE /\ pc' = "postInternal"
                     /\ run' = NewRun(hashFile)
                     /\ latestText' = text
    /\ UNCHANGED <<variant, changelog, hashFile, prev, totalInternal,
                   totalCommunity, entries>>

\* main of the hash-based revision, lines 112-140: up to the first fetch.
HashStart(force, internalWebhook, communityWebhook) ==
    /\ variant = "hash"
    /\ pc = "idle"
    /\ runs < MaxRuns
    /\ runs' = runs + 1
    /\ inv' = [NoInv EXCEPT !.force = force,
                            !.internalWebhook = internalWebhook,
                            !.communityWebhook = communityWebhook]
    /\ IF changelog = Null THEN ExitEarly("missing", 1)
       ELSE LET content == changelog
                currentHash == computeHash(content)
                storedHash == readStoredHash(hashFile)
                text == extractLatestSectionHash(content)
            IN  IF storedHash = Thrown THEN ExitEarly("readError", 1)
                ELSE IF hashUnchanged(force, storedHash, currentHash)
                THEN ExitEarly("unchanged", 0)
                ELSE IF falsy(internalWebhook) \/ falsy(communityWebhook)
                THEN ExitEarly("noConfig", 1)
                ELSE IF falsy(text) THEN ExitEarly("noSection", 1)
                ELSE /\ pc' = "postInternal"
                     /\ run' = NewRun(hashFile)
                     /\ latestText' = text
    /\ UNCHANGED <<variant, changelog, hashFile, prev, totalInternal,
                   totalCommunity, entries>>

\* Line 143 settles, with the hash written as soon as the internal POST went
\* through (line 150 moved between lines 143 and 144).
HashPostInternal_RecordsHash(res) ==
    /\ variant = "hash"
    /\ pc = "postInternal"
    /\ totalInternal' = totalInternal + 1
    /\ IF postToSlackThrows(res)
       THEN /\ pc' = "done"
            /\ run' = [run EXCEPT !.postsInternal = @ + 1, !.resInternal = res,
                                  !.outcome = "deliveryFailed", !.exitCode = 1]
            /\ UNCHANGED hashFile
       ELSE /\ pc' = "postCommunity"
            /\ run' = [run EXCEPT !.postsInternal = @ + 1, !.resInternal = res,
                                  !.hashWrites = @ + 1]
            /\ hashFile' = writeStoredHash(computeHash(changelog))
    /\ UNCHANGED <<variant, changelog, inv, latestText, runs, prev,
                   totalCommunity, entries>>

\* Line 143 settles: the POST to the internal webhook.
HashPostInternal(res) ==
    /\ variant = "hash"
    /\ pc = "postInternal"
    /\ totalInternal' = totalInternal + 1
    /\ IF postToSlackThrows(res)
       THEN /\ pc' = "done"
            /\ run' = [run EXCEPT !.postsInternal = @ + 1, !.resInternal = res,
                                  !.outcome = "deliveryFailed", !.exitCode = 1]
       ELSE /\ pc' = "postCommunity"
            /\ run' = [run EXCEPT !.postsInternal = @ + 1, !.resInternal = res]
    /\ UNCHANGED <<variant, changelog, hashFile, inv, latestText, runs, prev,
                   totalCommunity, entries>>

\* Line 144 settles, with the hash written whether the POST went through or
\* not (line 150 in a finally clause).
HashPostCommunity_WritesOnFailure(res) ==
    /\ variant = "hash"
    /\ pc = "postCommunity"
    /\ totalCommunity' = totalCommunity + 1
    /\ pc' = "done"
    /\ IF postToSlackThrows(res)
       THEN run' = [run EXCEPT !.postsCommunity = @ + 1, !.resCommunity = res,
                               !.outcome = "deliveryFailed", !.exitCode = 1,
                               !.hashWrites = @ + 1]
       ELSE run' = [run EXCEPT !.postsCommunity = @ + 1, !.resCommunity = res,
                               !.outcome = "posted", !.exitCode = 0,
                               !.hashWrites = @ + 1]
    /\ hashFile' = writeStoredHash(computeHash(changelog))
    /\ UNCHANGED <<variant, changelog, inv, latestText, runs, prev,
                   totalInternal, entries>>

\* Line 144 settles: the POST to the community webhook; then lines 145-152.
HashPostCommunity(res) ==
    /\ variant = "hash"
    /\ pc = "postCommunity"
    /\ totalCommunity' = totalCommunity + 1
    /\ pc' = "done"
    /\ IF postToSlackThrows(res)
       THEN /\ run' = [run EXCEPT !.postsCommunity = @ + 1, !.resCommunity = res,
                                  !.outcome = "deliveryFailed", !.exitCode = 1]
            /\ UNCHANGED hashFile
       ELSE /\ run' = [run EXCEPT !.postsCommunity = @ + 1, !.resCommunity = res,
                                  !.outcome = "posted", !.exitCode = 0,
                                  !.hashWrites = @ + 1]
            /\ hashFile' = writeStoredHash(computeHash(changelog))
    /\ UNCHANGED <<variant, changelog, inv, latestText, runs, prev,
                   totalInternal, entries>>

\* main of the git-based revision, lines 301-326: up to the first fetch.
GitStart(force, internalWebhook, communityWebhook, refBefore, refAfter, headParent, diffStatus) ==
    /\ variant = "git"
    /\ pc = "idle"
    /\ runs < MaxRuns
    /\ runs' = runs + 1
    /\ inv' = [force |-> force, internalWebhook |-> internalWebhook,
               communityWebhook |-> communityWebhook,
               refBefore |-> refBefore, refAfter |-> refAfter,
               headParent |-> headParent, diffStatus |-> diffStatus]
    /\ IF changelog = Null THEN ExitEarly("missing", 1)
       ELSE IF gitUnchanged(force, refBefore, refAfter, headParent, diffStatus)
       THEN ExitEarly("unchanged", 0)
       ELSE IF falsy(internalWebhook) \/ falsy(communityWebhook)
       THEN ExitEarly("noConfig", 1)
       ELSE LET content == changelog
                text == extractLatestSectionGit(content)
            IN  IF falsy(text) THEN ExitEarly("noSection", 1)
                ELSE /\ pc' = "postInternal"
                     /\ run' = NewRun(hashFile)
                     /\ latestText' = text
    /\ UNCHANGED <<variant, changelog, hashFile, prev, totalInternal,
                   totalCommunity, entries>>

\* Line 329 settles: the POST to the internal webhook.
GitPostInternal(res) ==
    /\ variant = "git"
    /\ pc = "postInternal"
    /\ totalInternal' = totalInternal + 1
    /\ IF postToSlackThrows(res)
       THEN /\ pc' = "done"
            /\ run' = [run EXCEPT !.postsInternal = @ + 1, !.resInternal = res,
                                  !.outcome = "deliveryFailed", !.exitCode = 1]
       ELSE /\ pc' = "postCommunity"
            /\ run' = [run EXCEPT !.postsInternal = @ + 1, !.resInternal = res]
    /\ UNCHANGED <<variant, changelog, hashFile, inv, latestText, runs, prev,
                   totalCommunity, entries>>

\* Line 330 settles: the POST to the community webhook; then lines 331-337.
GitPostCommunity(res) ==
    /\ variant = "git"
    /\ pc = "postCommunity"
    /\ totalCommunity' = totalCommunity + 1
    /\ pc' = "done"
    /\ IF postToSlackThrows(res)
       THEN run' = [run EXCEPT !.postsCommunity = @ + 1, !.resCommunity = res,
                               !.outcome = "deliveryFailed", !.exitCode = 1]
       ELSE run' = [run EXCEPT !.postsCommunity = @ + 1, !.resCommunity = res,
                               !.outcome = "posted", !.exitCode = 0]
    /\ UNCHANGED <<variant, changelog, hashFile, inv, latestText, runs, prev,
                   totalInternal, entries>>

\* The process has exited and the script is started again (the next push,
\* lines 6-8) with the files as the run left them.
Retrigger ==
    /\ pc = "done"
    /\ runs < MaxRuns
    /\ pc' = "idle"
    /\ prev' = Summary
    /\ inv' = NoInv
    /\ run' = NewRun(hashFile)
    /\ latestText' = Null
    /\ UNCHANGED <<variant, changelog, hashFile, runs, totalInternal,
                   totalCommunity, entries>>

\* Between two runs the changelog is edited, removed or restored.
EditChangelog(doc) ==
    /\ pc \in {"idle", "done"}
    /\ runs < MaxRuns
    /\ doc # changelog
    /\ changelog' = doc
    /\ pc' = "idle"
    /\ prev' = NoPrev
    /\ inv' = NoInv
    /\ run' = NewRun(hashFile)
    /\ latestText' = Null
    /\ UNCHANGED <<variant, hashFile, runs, totalInternal, totalCommunity,
                   entries>>

\* Between two runs the environment replaces, removes or locks the
\* stored-hash file (a checkout, a cache restore, a change of permissions).
SetHashFile(file) ==
    /\ variant = "hash"
    /\ pc \in {"idle", "done"}
    /\ runs < MaxRuns
    /\ file # hashFile
    /\ hashFile' = file
    /\ pc' = "idle"
    /\ prev' = NoPrev
    /\ inv' = NoInv
    /\ run' = NewRun(file)
    /\ latestText' = Null
    /\ UNCHANGED <<variant, changelog, runs, totalInternal, totalCommunity,
                   entries>>

Next ==
    \/ \E force \in BOOLEAN, w \in WebhookSettings :
          HashStart(force, w[1], w[2])
    \/ \E res \in Responses : HashPostInternal(res)
    \/ \E res \in Responses : HashPostCommunity(res)
    \/ \E force \in BOOLEAN, w \in WebhookSettings, r \in RefSettings,
          hp \in BOOLEAN, ds \in GitStatuses :
          GitStart(force, w[1], w[2], r[1], r[2], hp, ds)
    \/ \E res \in Responses : GitPostInternal(res)
    \/ \E res \in Responses : GitPostCommunity(res)
    \/ Retrigger
    \/ \E doc \in Documents \cup {Null} : EditChangelog(doc)
    \/ \E file \in HashFileStates : SetHashFile(file)

Spec == Init /\ [][Next]_vars

(***************************************************************************)
(* extractLatestSection on generated documents: the Timeline marker, then  *)
(* the entries E1 (newest) ... En, each a heading line, body lines and,    *)
(* when its rule is TRUE, a line "---" closing it.                         *)
(***************************************************************************)

\* How many entries a generated document holds at most.
MaxEntries == 3

\* "### May 2026", "### April 2026", ...: the headings of the hash-based
\* revision's changelog, newest first.
MonthHeadings ==
    << <<"#", "#", "#", " ", "M", "a", "y", " ", "2", "0", "2", "6">>,
       <<"#", "#", "#", " ", "A", "p", "r", "i", "l", " ", "2", "0", "2", "6">>,
       <<"#", "#", "#", " ", "M", "a", "r", "c", "h", " ", "2", "0", "2", "6">>,
       <<"#", "#", "#", " ", "J", "u", "n", "e", " ", "2", "0", "2", "5">> >>

\* "#### May 2", "#### Apr 9", ...: the headings of the git-based revision's
\* changelog, newest first.
DateHeadings ==
    << <<"#", "#", "#", "#", " ", "M", "a", "y", " ", "2">>,
       <<"#", "#", "#", "#", " ", "A", "p", "r", " ", "9">>,
       <<"#", "#", "#", "#", " ", "M", "a", "r", " ", "3", "0">>,
       <<"#", "#", "#", "#", " ", "F", "e", "b", " ", "1">> >>

HeadingOf(v, k) ==
    IF v = "hash" THEN MonthHeadings[((k - 1) % Len(MonthHeadings)) + 1]
    ELSE DateHeadings[((k - 1) % Len(DateHeadings)) + 1]

\* The bodies of an entry: no line; "- a"; "", "- a", " b " (a blank line
\* and a line with blanks at both ends); "- a", "  ", "" (blank lines last).
Bodies ==
    { << >>,
      << <<"-", " ", "a">> >>,
      << << >>, <<"-", " ", "a">>, <<" ", "b", " ">> >>,
      << <<"-", " ", "a">>, <<" ", " ">>, << >> >> }

\* What stands before the Timeline marker: nothing, or "# Log" and a blank.
Intros == { << >>, << <<"#", " ", "L", "o", "g">>, << >> >> }

EntryShapes == [body : Bodies, rule : BOOLEAN]

EntryLists == UNION {[1..n -> EntryShapes] : n \in 1..MaxEntries}

\* The body lengths around the cap, for one entry with a one-line body.
LongLengths == {2000, 2987, 2988, 2989, 2990, 3100}

LongLists == {<<[body |-> <<[i \in 1..n |-> "x"]>>, rule |-> FALSE]>> : n \in LongLengths}

RECURSIVE EntryLines(_, _, _)
\* The lines of the entries es[k], es[k + 1], ...
EntryLines(v, es, k) ==
    IF k > Len(es) THEN << >>
    ELSE <<HeadingOf(v, k)>> \o es[k].body
         \o (IF es[k].rule THEN <<RulePrefix>> ELSE << >>)
         \o EntryLines(v, es, k + 1)

\* The document made of intro, the marker and the entries.
Render(v, intro, es) == join(intro \o <<TimelineMarker>> \o EntryLines(v, es, 1))

InitExtract ==
    /\ variant \in {"hash", "git"}
    /\ entries \in EntryLists \cup LongLists
    /\ \E intro \in Intros : changelog = Render(variant, intro, entries)
    /\ hashFile = NoFile
    /\ pc = "idle"
    /\ inv = NoInv
    /\ run = NewRun(NoFile)
    /\ latestText = Null
    /\ runs = 0
    /\ prev = NoPrev
    /\ totalInternal = 0
    /\ totalCommunity = 0

\* The call of line 134 on the content read at line 120.
ExtractHash ==
    /\ variant = "hash"
    /\ pc = "idle"
    /\ latestText' = extractLatestSectionHash(changelog)
    /\ pc' = "extracted"
    /\ UNCHANGED <<variant, changelog, hashFile, inv, run, runs, prev,
                   totalInternal, totalCommunity, entries>>

\* The call of line 320 on the content read at line 319.
ExtractGit ==
    /\ variant = "git"
    /\ pc = "idle"
    /\ latestText' = extractLatestSectionGit(changelog)
    /\ pc' = "extracted"
    /\ UNCHANGED <<variant, changelog, hashFile, inv, run, runs, prev,
                   totalInternal, totalCommunity, entries>>

NextExtract == ExtractHash \/ ExtractGit

SpecExtract == InitExtract /\ [][NextExtract]_vars

(***************************************************************************)
(* Properties of extractLatestSection, under SpecExtract.                  *)
(***************************************************************************)

IsBlankLine(line) == \A i \in 1..Len(line) : line[i] \in WhiteSpace

IsRuleLine(line) == line = RulePrefix

IsContentLine(line) == ~IsBlankLine(line) /\ ~IsRuleLine(line)

\* The content of the entries E1 .. Ek of the generated document: their
\* lines without the blank lines and the rule lines, joined, and trimmed at
\* both ends.
EntryContent(k) ==
    trim(join(SelectSeq(EntryLines(variant, SubSeq(entries, 1, k), 1),
                        IsContentLine)))

\* The first entry closed by a rule, or the last entry when there is none.
FirstRuled ==
    LET ruled == {k \in 1..Len(entries) : entries[k].rule}
    IN  IF ruled = {} THEN Len(entries) ELSE Min(ruled)

Extracted == pc = "extracted" /\ latestText # Null

Cleaned == EntryContent(IF variant = "hash" THEN FirstRuled ELSE 1)

\* C9, as claimed: a cleaned text longer than 3000 characters comes out
\* exactly 3000 characters long and ending with the ellipsis; a cleaned text
\* of at most 3000 characters comes out unchanged; the result is never
\* longer than 3000 characters.
C9_Truncation ==
    Extracted =>
        /\ Len(Cleaned) > MaxTextLen =>
              /\ Len(latestText) = MaxTextLen
              /\ latestText[Len(latestText)] = Ellipsis
        /\ Len(Cleaned) <= MaxTextLen => latestText = Cleaned
        /\ Len(latestText) <= MaxTextLen

(***************************************************************************)
(* Properties of the runs, under Spec.                                     *)
(***************************************************************************)

\* A POST "returned a success status": fetch resolved, with a 2xx status.
Success(res) == ~res.rejected /\ res.status \in 200..299

InternalAccepted == run.postsInternal = 1 /\ Success(run.resInternal)

CommunityAccepted == run.postsCommunity = 1 /\ Success(run.resCommunity)

\* --force or not, the run is past lines 115-127: it goes on to the
\* configuration check.
PastGate == run.outcome \in {"noConfig", "noSection", "deliveryFailed", "posted"}

Unset(x) == x = Null \/ Len(x) = 0

WebhookUnset == Unset(inv.internalWebhook) \/ Unset(inv.communityWebhook)

\* The digest stored in the file the run started from is there and equals
\* the digest of the changelog.
HashMatches ==
    /\ changelog # Null
    /\ run.hashAtStart.state = "file"
    /\ trim(run.hashAtStart.data) = computeHash(changelog)

\* git diff between the two revisions of the run exited with status 0: the
\* two of REF_BEFORE and REF_AFTER when both are set, else HEAD^ and HEAD,
\* which takes HEAD^ to exist.
RefsGiven == ~Unset(inv.refBefore) /\ ~Unset(inv.refAfter)

GitDiffClean == inv.diffStatus = 0 /\ (RefsGiven \/ inv.headParent)

\* C1: in the hash-based revision the stored-hash file is written only
\* after both POSTs returned a success status, and a run that ends with
\* exit code 1 leaves the file as it was before the run.
C1_HashWrittenOnlyAfterBoth ==
    variant = "hash" =>
        /\ (run.hashWrites > 0 \/ hashFile # run.hashAtStart)
              => (pc = "done" /\ InternalAccepted /\ CommunityAccepted)
        /\ (pc = "done" /\ run.exitCode = 1)
              => (hashFile = run.hashAtStart /\ run.hashWrites = 0)

\* A run whose community POST was refused has ended with exit code 1 and
\* the stored-hash file, which was there before, is as it was.
C1_Witness ==
    /\ variant = "hash"
    /\ pc = "done"
    /\ run.exitCode = 1
    /\ InternalAccepted
    /\ run.postsCommunity = 1
    /\ ~Success(run.resCommunity)
    /\ run.hashAtStart.state = "file"
    /\ hashFile = run.hashAtStart

\* C2: in the hash-based revision, when the digest of the changelog equals
\* the stored digest and --force is not given, the run reports unchanged,
\* makes no POST, does not write the stored-hash file and exits with 0.
C2_UnchangedIsNoOp ==
    (variant = "hash" /\ pc = "done" /\ HashMatches /\ ~inv.force)
        => /\ run.outcome = "unchanged"
           /\ run.exitCode = 0
           /\ run.postsInternal = 0
           /\ run.postsCommunity = 0
           /\ run.hashWrites = 0
           /\ hashFile = run.hashAtStart

\* An unforced run has ended on a stored-hash file that holds the digest
\* between a blank and a newline.
C2_Witness ==
    /\ variant = "hash"
    /\ pc = "done"
    /\ HashMatches
    /\ ~inv.force
    /\ run.hashAtStart.data # computeHash(changelog)
    /\ run.exitCode = 0

\* C3: two unforced runs of the hash-based revision in succession on one
\* unchanged, extractable document, the first from a stored hash that is
\* absent or differs, with both webhooks set and every POST accepted: the
\* first run makes one POST to each destination, the second none, and the
\* second reads back the hash the first wrote (digest and newline) as equal
\* to the digest.
C3_Idempotent ==
    ( /\ variant = "hash"
      /\ pc = "done"
      /\ prev.ran
      /\ ~prev.force
      /\ prev.stale
      /\ prev.configured
      /\ ~prev.refused
      /\ extractLatestSectionHash(changelog) # Null
      /\ ~inv.force )
        => /\ prev.postsInternal = 1
           /\ prev.postsCommunity = 1
           /\ run.postsInternal = 0
           /\ run.postsCommunity = 0
           /\ run.exitCode = 0
           /\ run.hashAtStart = File(computeHash(changelog) \o <<NL>>)
           /\ readStoredHash(run.hashAtStart) = computeHash(changelog)

\* The second of two such runs has ended.
C3_Witness ==
    /\ variant = "hash"
    /\ pc = "done"
    /\ prev.ran
    /\ ~prev.force
    /\ prev.stale
    /\ prev.configured
    /\ ~prev.refused
    /\ prev.postsCommunity = 1
    /\ ~inv.force
    /\ run.outcome = "unchanged"

\* C4: in both revisions the community webhook is POSTed only after the
\* internal POST returned a success status; when the internal POST does not,
\* the community webhook is never called and the process exits with 1.
C4_SequentialDelivery ==
    /\ run.postsCommunity > 0 => InternalAccepted
    /\ (run.postsInternal > 0 /\ ~Success(run.resInternal))
          => (pc = "done" /\ run.postsCommunity = 0 /\ run.exitCode = 1)
    /\ run.postsInternal <= 1 /\ run.postsCommunity <= 1

\* The internal webhook answered 500 in a run of the git-based revision.
C4_Witness ==
    /\ variant = "git"
    /\ pc = "done"
    /\ run.postsInternal = 1
    /\ run.resInternal = Response(500)
    /\ run.postsCommunity = 0
    /\ run.exitCode = 1

\* The detector of the run's revision finds the changelog unchanged.
Unchanged ==
    IF variant = "hash" THEN HashMatches
    ELSE changelog # Null /\ GitDiffClean

\* C5: in both revisions the webhooks are checked only once the gate is
\* passed: an unforced run on an unchanged changelog exits with 0 whatever
\* the webhook variables are, and a run on a changed changelog, or a forced
\* one, with a webhook unset exits with 1, makes no POST and does not write
\* the stored hash.
C5_ConfigCheckedAfterGate ==
    pc = "done" =>
        /\ (~inv.force /\ Unchanged)
              => (run.exitCode = 0 /\ run.postsInternal = 0)
        /\ (changelog # Null /\ (inv.force \/ ~Unchanged) /\ WebhookUnset)
              => /\ run.exitCode = 1
                 /\ run.postsInternal = 0
                 /\ run.postsCommunity = 0
                 /\ run.hashWrites = 0
                 /\ hashFile = run.hashAtStart

\* An unforced run of the hash-based revision, with neither webhook set,
\* has found the stored hash equal to the digest and has exited with 0.
C5_Witness ==
    /\ variant = "hash"
    /\ pc = "done"
    /\ ~inv.force
    /\ HashMatches
    /\ inv.internalWebhook = Null
    /\ inv.communityWebhook = Null
    /\ run.exitCode = 0

\* What a forced run on an existing changelog comes to when nothing of the
\* detector's state counts: decided by the webhooks, the document and the
\* responses alone.
ForcedOutcome ==
    IF WebhookUnset THEN "noConfig"
    ELSE IF (IF variant = "hash" THEN extractLatestSectionHash(changelog)
             ELSE extractLatestSectionGit(changelog)) = Null
    THEN "noSection"
    ELSE IF InternalAccepted /\ CommunityAccepted THEN "posted"
    ELSE "deliveryFailed"

\* C6: in both revisions a run with --force on an existing changelog goes
\* on to the configuration check, extraction and delivery whatever the
\* detector's reference state is (the stored-hash file absent, matching,
\* differing or unreadable; any outcome of git), and how the run ends does
\* not depend on that state.
C6_ForceBypassesDetector ==
    (pc = "done" /\ inv.force /\ changelog # Null)
        => /\ PastGate
           /\ run.outcome = ForcedOutcome
           /\ run.outcome = "posted" <=> run.exitCode = 0
           /\ (variant = "hash" /\ run.outcome = "posted")
                 => hashFile = File(computeHash(changelog) \o <<NL>>)

\* The prior revision of an unforced run of the git-based revision cannot
\* be resolved.
Unresolved ==
    \/ ~RefsGiven /\ ~inv.headParent
    \/ RefsGiven /\ inv.diffStatus # 0

\* C7: the git-based revision fails open: when the prior revision cannot be
\* resolved the run does not take the no-op exit and goes on to the
\* notification; it takes the no-op exit only when git diff exited with 0.
C7_GitFailsOpen ==
    (variant = "git" /\ pc = "done" /\ changelog # Null /\ ~inv.force)
        => /\ Unresolved => PastGate
           /\ run.outcome = "unchanged" => inv.diffStatus = 0
           /\ run.outcome = "unchanged" <=> GitDiffClean

\* Without REF_BEFORE and without HEAD^, an unforced run has posted.
C7_Witness ==
    /\ variant = "git"
    /\ pc = "done"
    /\ ~inv.force
    /\ inv.refBefore = Null
    /\ ~inv.headParent
    /\ inv.diffStatus = 0
    /\ run.outcome = "posted"

\* The run before delivered to the internal webhook and was refused by the
\* community webhook; this run, unforced and with both webhooks set, follows
\* it on the same files.
AfterPartialDelivery ==
    /\ variant = "hash"
    /\ pc = "done"
    /\ prev.ran
    /\ prev.postsInternal = 1
    /\ prev.postsCommunity = 1
    /\ prev.refused
    /\ ~inv.force
    /\ ~WebhookUnset

\* What C10 says of every state: a partial delivery ends with exit code 1
\* and the stored hash as it was; over all runs the internal webhook got as
\* many POSTs as the community webhook or more; a run makes the stored hash
\* equal to the digest only when both destinations accepted.
PartialDeliveryNotRecorded ==
    /\ (variant = "hash" /\ pc = "done" /\ InternalAccepted
          /\ run.postsCommunity = 1 /\ ~Success(run.resCommunity))
          => (run.exitCode = 1 /\ hashFile = run.hashAtStart)
    /\ totalInternal >= totalCommunity
    /\ (variant = "hash" /\ changelog # Null /\ pc \in {"postInternal", "postCommunity", "done"}
          /\ readStoredHash(hashFile) = computeHash(changelog)
          /\ readStoredHash(run.hashAtStart) # computeHash(changelog))
          => (InternalAccepted /\ CommunityAccepted)

\* C10, as claimed: after a partial delivery the next unforced run on the
\* same document passes the gate again and POSTs to the internal webhook a
\* second time.
C10_PartialDeliveryRepeats ==
    /\ PartialDeliveryNotRecorded
    /\ AfterPartialDelivery => (PastGate /\ run.postsInternal = 1)

\* C10, amended: so it is when the run of the partial delivery had found
\* the stored hash absent or different from the digest; a run forced past a
\* matching stored hash leaves it matching, and the next unforced run is a
\* no-op.
C10_PartialDeliveryRepeatsIfStale ==
    /\ PartialDeliveryNotRecorded
    /\ (AfterPartialDelivery /\ prev.stale) => (PastGate /\ run.postsInternal = 1)
    /\ (AfterPartialDelivery /\ ~prev.stale)
          => (run.outcome = "unchanged" /\ run.postsInternal = 0)

\* The internal webhook has been POSTed to a second time for one document
\* that the community webhook refused.
C10_Witness ==
    /\ AfterPartialDelivery
    /\ prev.stale
    /\ run.postsInternal = 1
    /\ totalInternal = 2
    /\ totalCommunity = 1

====
